---------------------------- MODULE Spec2Model ----------------------------
(***************************************************************************)
(* Swat Chat backend (src/Backend/backend.py): the start-up bootstrap of   *)
(* the SWaT Operation Manual, the arXiv search adapter and the four HTTP   *)
(* handlers, as a state machine.                                           *)
(*                                                                         *)
(* The disk (data directory, manual file) outlives the process; the        *)
(* process is started (module import, lines 24-53), serves requests and    *)
(* may be stopped and started again.                                       *)
(***************************************************************************)
EXTENDS Integers, Sequences, FiniteSets, TLC

\* ------------------------------------------------------------------ bounds
MaxPages == 1       \* pages of a well-formed manual file
MaxSec   == 0       \* whole seconds the wall clock can show
MaxFeed  == 4       \* papers the external index can hold for one expression

\* ------------------------------------------------------- program constants
DefaultMaxResults == 3      \* search_arxiv_swat(query, max_results=3)
SummaryLimit      == 400    \* paper.summary[:400]
UsPerSec          == 1000000 \* datetime: microseconds in a second

VARIABLES
    dataDir,    \* DATA_DIR on disk: "absent" | "dir" | "file"
    pdf,        \* PDF_PATH on disk: a file content record, NoFile when absent
    phase,      \* the process: "down" | "serving" | "crashed"
    swat_docs,  \* module global swat_docs (sequence of page records)
    created,    \* times this program has created the file at PDF_PATH
    boot,       \* what the last start-up did (see NoBoot)
    response,   \* the last HTTP response sent, with the request it answers
    chats,      \* the last two /chat responses of this run, latest last, each
                \* with the clock reading it was built from
    search      \* the search_arxiv_swat call of the last request (see IdleSearch)

vars == <<dataDir, pdf, phase, swat_docs, created, boot, response, chats, search>>

Min(a, b) == IF a < b THEN a ELSE b

\* ------------------------------------------------------------- the disk
NoFile     == [kind |-> "none",  pages |-> 0]
JunkFile   == [kind |-> "junk",  pages |-> 0]   \* bytes that are no PDF
TruncFile  == [kind |-> "trunc", pages |-> 0]   \* a write cut short
PdfFile(n) == [kind |-> "pdf",   pages |-> n]   \* a PDF of n pages

\* What the remote host can send as response.content.
RemoteContents == {JunkFile} \cup {PdfFile(n) : n \in 0..MaxPages}

\* PDF_PATH.exists()
Exists(f) == f.kind # "none"

\* Outcomes of requests.get + raise_for_status, and of write_bytes.
NetOutcomes   == {"ok", "neterr", "badstatus"}
WriteOutcomes == {"ok", "denied", "partial"}

\* DATA_DIR.mkdir(exist_ok=True): the directory afterwards and whether it
\* raised.  An existing directory is accepted; an existing non-directory
\* raises FileExistsError; creation can fail with an OSError.
Mkdir(dir, canCreate) ==
    CASE dir = "dir"    -> [dir |-> "dir",    raised |-> FALSE]
      [] dir = "file"   -> [dir |-> "file",   raised |-> TRUE]
      [] canCreate      -> [dir |-> "dir",    raised |-> FALSE]
      [] OTHER          -> [dir |-> "absent", raised |-> TRUE]

\* Faulty variant: the existence check is dropped, every start-up fetches and writes.
DownloadAlways(file, net, content, wr) ==
    IF net # "ok"
    THEN [pdf |-> file, fetched |-> TRUE, error |-> net]
    ELSE CASE wr = "ok"      -> [pdf |-> content,   fetched |-> TRUE, error |-> "none"]
           [] wr = "partial" -> [pdf |-> TruncFile, fetched |-> TRUE, error |-> "write"]
           [] OTHER          -> [pdf |-> file,      fetched |-> TRUE, error |-> "write"]

\* download_swat_manual(): the file afterwards, whether the network was
\* used, whether it raised.
download_swat_manual(file, net, content, wr) ==
    IF Exists(file)
    THEN [pdf |-> file, fetched |-> FALSE, error |-> "none"]
    ELSE IF net # "ok"
         THEN [pdf |-> file, fetched |-> TRUE, error |-> net]
         ELSE CASE wr = "ok"      -> [pdf |-> content,   fetched |-> TRUE, error |-> "none"]
                [] wr = "partial" -> [pdf |-> TruncFile, fetched |-> TRUE, error |-> "write"]
                [] OTHER          -> [pdf |-> file,      fetched |-> TRUE, error |-> "write"]

\* PyPDFLoader(str(PDF_PATH)).load(): one record per page, or a raise.
Pages(n) == [i \in 1..n |-> [page |-> i - 1]]

LoaderLoad(file, readable) ==
    IF file.kind = "pdf" /\ readable
    THEN [docs |-> Pages(file.pages), error |-> "none"]
    ELSE [docs |-> <<>>,              error |-> "parse"]

\* Faulty variant: the except branch also removes a file that would not load.
TryLoadCleanup(file, net, content, wr, readable) ==
    LET d == download_swat_manual(file, net, content, wr)
        l == LoaderLoad(d.pdf, readable)
    IN  IF d.error # "none"
        THEN [pdf |-> d.pdf, fetched |-> d.fetched, docs |-> <<>>, error |-> d.error]
        ELSE [pdf |-> IF l.error = "none" THEN d.pdf ELSE NoFile,
              fetched |-> d.fetched, docs |-> l.docs, error |-> l.error]

\* The try/except of lines 46-53 around download and load.
TryLoad(file, net, content, wr, readable) ==
    LET d == download_swat_manual(file, net, content, wr)
        l == LoaderLoad(d.pdf, readable)
    IN  IF d.error # "none"
        THEN [pdf |-> d.pdf, fetched |-> d.fetched, docs |-> <<>>, error |-> d.error]
        ELSE [pdf |-> d.pdf, fetched |-> d.fetched, docs |-> l.docs, error |-> l.error]

NoBoot == [existed |-> FALSE, fetched |-> FALSE, error |-> "none", raised |-> FALSE]

\* ------------------------------------------------------------ responses
NoResponse == [op |-> "none", req |-> <<>>, status |-> 0, body |-> <<>>]
IdleSearch == [issued |-> 0, expr |-> <<>>, yielded |-> <<>>, acc |-> <<>>,
               failed |-> FALSE, raised |-> FALSE]

\* ----------------------------------------------------- request queries
\* A query string, as the sequence of tokens the index's query language
\* reads in it.  ChatRequest.query is any string: nothing validates it.
Queries ==
    { <<>>,
      <<"all:attack">>,
      <<"all:detection">>,
      <<"all:attack", "ANDNOT", "all:detection">>,
      <<"all:attack", ")", "OR", "(", "all:detection">> }

\* --------------------------------------------------- the search adapter
\* The two fixed clauses of the template, lines 79-81.
Clause1 == <<"(", "ti:SWaT", "OR", "abs:SWaT", "OR", "abs:Secure Water Treatment", ")">>
Clause2 == <<"(", "abs:cyber physical", "OR", "abs:industrial control", "OR",
             "abs:ICS", "OR", "abs:water treatment", ")">>

\* constrained_query, lines 78-83: the query is pasted between "AND (" and ")".
constrained_query(query) ==
    Clause1 \o <<"AND">> \o Clause2 \o <<"AND", "(">> \o query \o <<")">>

\* The index's query language: atoms (field:term), parentheses, and the
\* operators AND, ANDNOT (binding tighter) and OR.  `terms` is the set of
\* atoms a paper matches.  A parse result is [ok, val, pos].  An
\* intermediate result is bound once (r \in {...}) and then read.
Operators == {"AND", "OR", "ANDNOT"}
ParseError == [ok |-> FALSE, val |-> FALSE, pos |-> 0]
Parsed(val, pos) == [ok |-> TRUE, val |-> val, pos |-> pos]
The(set) == CHOOSE x \in set : TRUE

RECURSIVE ParseExpr(_, _, _), ExprRest(_, _, _, _), ParseTerm(_, _, _),
          TermRest(_, _, _, _), ParseFactor(_, _, _)

ParseFactor(t, i, terms) ==
    IF i > Len(t) \/ t[i] \in Operators \cup {")"}
    THEN ParseError
    ELSE IF t[i] = "("
         THEN The({ IF r.ok /\ r.pos <= Len(t) /\ t[r.pos] = ")"
                    THEN Parsed(r.val, r.pos + 1)
                    ELSE ParseError : r \in {ParseExpr(t, i + 1, terms)} })
         ELSE Parsed(t[i] \in terms, i + 1)

TermRest(t, i, acc, terms) ==
    IF i <= Len(t) /\ t[i] \in {"AND", "ANDNOT"}
    THEN The({ IF ~b.ok THEN ParseError
               ELSE TermRest(t, b.pos,
                             IF t[i] = "AND" THEN acc /\ b.val ELSE acc /\ ~b.val,
                             terms) : b \in {ParseFactor(t, i + 1, terms)} })
    ELSE Parsed(acc, i)

ParseTerm(t, i, terms) ==
    The({ IF ~a.ok THEN ParseError ELSE TermRest(t, a.pos, a.val, terms) :
          a \in {ParseFactor(t, i, terms)} })

ExprRest(t, i, acc, terms) ==
    IF i <= Len(t) /\ t[i] = "OR"
    THEN The({ IF ~b.ok THEN ParseError ELSE ExprRest(t, b.pos, acc \/ b.val, terms) :
               b \in {ParseTerm(t, i + 1, terms)} })
    ELSE Parsed(acc, i)

ParseExpr(t, i, terms) ==
    The({ IF ~a.ok THEN ParseError ELSE ExprRest(t, a.pos, a.val, terms) :
          a \in {ParseTerm(t, i, terms)} })

\* The index accepts the expression / a paper with these terms satisfies it.
WellFormed(expr) ==
    \E r \in {ParseExpr(expr, 1, {})} : r.ok /\ r.pos = Len(expr) + 1

Satisfies(terms, expr) ==
    \E r \in {ParseExpr(expr, 1, terms)} : r.ok /\ r.pos = Len(expr) + 1 /\ r.val

\* A text is kept as its runs of equal characters: <<[ch, n], ...>> is ch
\* repeated n times, and so on.
Run(ch, n) == [ch |-> ch, n |-> n]

\* The papers of the external index, in its relevance order.
Catalogue ==
    << [title |-> "A", terms |-> {"ti:SWaT", "abs:ICS", "all:attack"},
        summary |-> <<>>,
        published |-> [year |-> 2019, month |-> 3, day |-> 7, hour |-> 23],
        categories |-> <<"cs.CR">>],
       [title |-> "B", terms |-> {"abs:SWaT", "abs:water treatment", "all:attack"},
        summary |-> <<Run("s", SummaryLimit - 1), Run("t", 1)>>,
        published |-> [year |-> 2020, month |-> 12, day |-> 31, hour |-> 0],
        categories |-> <<"cs.CR", "cs.LG">>],
       [title |-> "C", terms |-> {"abs:Secure Water Treatment", "abs:cyber physical",
                                  "all:attack", "all:detection"},
        summary |-> <<Run("a", 200), Run("b", SummaryLimit - 200), Run("c", 1)>>,
        published |-> [year |-> 2021, month |-> 1, day |-> 1, hour |-> 12],
        categories |-> <<"eess.SY">>],
       [title |-> "D", terms |-> {"ti:SWaT", "abs:industrial control", "all:attack"},
        summary |-> <<Run("x", SummaryLimit - 10), Run("y", 60)>>,
        published |-> [year |-> 2022, month |-> 6, day |-> 15, hour |-> 8],
        categories |-> <<>>],
       [title |-> "E", terms |-> {"all:detection"},
        summary |-> <<Run("e", SummaryLimit - 1)>>,
        published |-> [year |-> 2018, month |-> 2, day |-> 28, hour |-> 1],
        categories |-> <<"physics.ins-det">>] >>

RECURSIVE Filter(_, _)
Filter(s, expr) ==
    IF s = <<>> THEN <<>>
    ELSE (IF Satisfies(Head(s).terms, expr) THEN <<Head(s)>> ELSE <<>>)
         \o Filter(Tail(s), expr)

\* The index's answer to each expression the adapter can send: whether it
\* accepts it, and the papers that satisfy it.
IndexAnswer ==
    [expr \in {constrained_query(q) : q \in Queries} |->
        [ok |-> WellFormed(expr), hits |-> Filter(Catalogue, expr)]]

\* What the index holds for an expression at a call: the first `held` of
\* the papers that satisfy it.  The index is outside the program; its
\* content is not promised from one call to the next.
IndexFeed(expr, held) ==
    SubSeq(IndexAnswer[expr].hits, 1, Min(held, Len(IndexAnswer[expr].hits)))

\* Faulty variant: max_results is not passed on, the generator yields all it holds.
SearchResultsUncapped(feed, max_results) == feed

\* arxiv.Search(query, max_results, sort_by).results(): the generator stops
\* after max_results papers.
SearchResults(feed, max_results) == SubSeq(feed, 1, Min(max_results, Len(feed)))

\* Python s[:n] for n >= 0: the first n characters, all of s when it is
\* shorter.
RECURSIVE Slice(_, _)
Slice(s, n) ==
    IF s = <<>> \/ n <= 0 THEN <<>>
    ELSE IF Head(s).n <= n
         THEN <<Head(s)>> \o Slice(Tail(s), n - Head(s).n)
         ELSE <<Run(Head(s).ch, n)>>

\* paper.published.date().isoformat(): the calendar date, time of day dropped.
DateIso(published) == <<published.year, published.month, published.day>>

\* Faulty variant: the summary is not cut.
ProjectWholeSummary(paper) ==
    [title      |-> paper.title,
     summary    |-> paper.summary,
     published  |-> DateIso(paper.published),
     categories |-> paper.categories]

\* The record appended per paper, lines 93-98.
Project(paper) ==
    [title      |-> paper.title,
     summary    |-> Slice(paper.summary, SummaryLimit),
     published  |-> DateIso(paper.published),
     categories |-> paper.categories]

\* Faulty variant: the loop is wrapped in a try/except that returns what was
\* accumulated before the failure.
SearchSwallow(query, max_results, held, failAfter) ==
    LET expr  == constrained_query(query)
        ok    == IndexAnswer[expr].ok
        feed  == IF ok THEN SearchResults(IndexFeed(expr, held), max_results) ELSE <<>>
        fails == ~ok \/ (failAfter >= 0 /\ failAfter <= Len(feed))
        got   == IF fails /\ ok THEN SubSeq(feed, 1, failAfter) ELSE feed
    IN  [issued  |-> 1,
         expr    |-> expr,
         yielded |-> got,
         acc     |-> [i \in 1..Len(got) |-> Project(got[i])],
         failed  |-> fails,
         raised  |-> FALSE]

\* search_arxiv_swat(query, max_results), lines 72-100.  `held` is the
\* index's state at the call; the index raises when the call is
\* issued if it rejects the expression, and a transport failure raises after
\* `failAfter` papers were yielded (-1: no failure).  Nothing is caught: a
\* raise leaves the function with no return value.  The result records the
\* call: searches issued, the expression sent, the papers yielded, the list
\* accumulated, whether a failure happened and whether it left the function.
search_arxiv_swat(query, max_results, held, failAfter) ==
    LET expr  == constrained_query(query)
        ok    == IndexAnswer[expr].ok
        feed  == IF ok THEN SearchResults(IndexFeed(expr, held), max_results) ELSE <<>>
        fails == ~ok \/ (failAfter >= 0 /\ failAfter <= Len(feed))
        got   == IF fails /\ ok THEN SubSeq(feed, 1, failAfter) ELSE feed
    IN  [issued  |-> 1,
         expr    |-> expr,
         yielded |-> got,
         acc     |-> [i \in 1..Len(got) |-> Project(got[i])],
         failed  |-> fails,
         raised  |-> fails]

\* ----------------------------------------------------- process life cycle
\* Module import: lines 24-53 run once, before any request is served.
Bootstrap ==
    /\ phase = "down"
    /\ \E canCreate \in BOOLEAN, net \in NetOutcomes, content \in RemoteContents,
          wr \in WriteOutcomes, readable \in BOOLEAN :
          LET m == Mkdir(dataDir, canCreate)
              t == TryLoad(pdf, net, content, wr, readable)
          IN  IF m.raised
              THEN /\ dataDir' = m.dir
                   /\ phase' = "crashed"
                   /\ boot' = [existed |-> Exists(pdf), fetched |-> FALSE,
                               error |-> "mkdir", raised |-> TRUE]
                   /\ UNCHANGED <<pdf, swat_docs, created>>
              ELSE /\ dataDir' = m.dir
                   /\ pdf' = t.pdf
                   /\ swat_docs' = t.docs
                   /\ created' = created + (IF ~Exists(pdf) /\ Exists(t.pdf) THEN 1 ELSE 0)
                   /\ phase' = "serving"
                   /\ boot' = [existed |-> Exists(pdf), fetched |-> t.fetched,
                               error |-> t.error, raised |-> FALSE]
    /\ UNCHANGED <<response, chats, search>>

\* The process ends (killed or exited); memory is lost, the disk stays.
Stop ==
    /\ phase \in {"serving", "crashed"}
    /\ phase' = "down"
    /\ swat_docs' = <<>>
    /\ response' = NoResponse
    /\ chats' = <<>>
    /\ search' = IdleSearch
    /\ UNCHANGED <<dataDir, pdf, created, boot>>

\* ------------------------------------------------------------- handlers
\* Readings of the system's UTC wall clock, in microseconds.
Times == {sec * UsPerSec + us : sec \in 0..MaxSec, us \in {0, UsPerSec - 1}}

\* Faulty variant: the timestamp is written to the second.
IsoformatSeconds(t) == <<t \div UsPerSec>>

\* datetime.isoformat(): the seconds field, then the microseconds only when
\* they are not zero ("...T00:00:01" but "...T00:00:01.999999").
isoformat(t) ==
    IF t % UsPerSec = 0 THEN <<t \div UsPerSec>> ELSE <<t \div UsPerSec, t % UsPerSec>>

placeholder_answer ==
    "This is a placeholder response from Swat Chat. The RAG pipeline will retrieve relevant research from arXiv as the primary source and ground it using the SWaT Operation Manual."

ChatSources == <<"arXiv (primary)", "SWaT Operation Manual (secondary)">>

\* What datetime.utcnow() can return in a handler: the wall clock is the
\* system's, and can be set between two requests.
utcnow == Times

LastTwo(s) == IF Len(s) <= 2 THEN s ELSE SubSeq(s, Len(s) - 1, Len(s))

\* POST /chat, lines 106-127.
chat_endpoint ==
    /\ phase = "serving"
    /\ \E query \in Queries, now \in utcnow :
          LET body == [answer    |-> placeholder_answer,
                       sources   |-> ChatSources,
                       timestamp |-> isoformat(now)]
          IN  /\ response' = [op |-> "chat", req |-> query, status |-> 200, body |-> body]
              /\ chats' = LastTwo(Append(chats, [body |-> body, utc |-> now]))
    /\ search' = IdleSearch
    /\ UNCHANGED <<dataDir, pdf, phase, swat_docs, created, boot>>

\* POST /arxiv-search, lines 133-140.  An exception of search_arxiv_swat
\* leaves the handler; the framework answers 500 with no body of ours.
arxiv_search ==
    /\ phase = "serving"
    /\ \E query \in Queries, held \in 0..MaxFeed,
          failAfter \in -1..DefaultMaxResults :
          LET papers == search_arxiv_swat(query, DefaultMaxResults, held, failAfter)
          IN  /\ search' = papers
              /\ response' =
                    IF papers.raised
                    THEN [op |-> "arxiv-search", req |-> query, status |-> 500, body |-> <<>>]
                    ELSE [op |-> "arxiv-search", req |-> query, status |-> 200,
                          body |-> [query          |-> query,
                                    primary_source |-> "arXiv",
                                    results        |-> papers.acc]]
    /\ UNCHANGED <<dataDir, pdf, phase, swat_docs, created, boot, chats>>

\* GET /health, lines 146-148.
health_check ==
    /\ phase = "serving"
    /\ response' = [op |-> "health", req |-> <<>>, status |-> 200, body |-> [status |-> "ok"]]
    /\ search' = IdleSearch
    /\ UNCHANGED <<dataDir, pdf, phase, swat_docs, created, boot, chats>>

\* Faulty variant: /kb-info reports the pages of the file on disk, loaded or not.
KbInfoFromDisk ==
    /\ phase = "serving"
    /\ response' = [op |-> "kb-info", req |-> <<>>, status |-> 200,
                    body |-> [documents_loaded |-> pdf.pages,
                              secondary_source |-> "SWaT Operation Manual",
                              source_location  |-> "GitHub (public repo)"]]
    /\ search' = IdleSearch
    /\ UNCHANGED <<dataDir, pdf, phase, swat_docs, created, boot, chats>>

\* Faulty variant: /kb-info loads the manual again on every request.
KbInfoReload ==
    /\ phase = "serving"
    /\ \E readable \in BOOLEAN :
          /\ swat_docs' = LoaderLoad(pdf, readable).docs
          /\ response' = [op |-> "kb-info", req |-> <<>>, status |-> 200,
                          body |-> [documents_loaded |-> Len(swat_docs'),
                                    secondary_source |-> "SWaT Operation Manual",
                                    source_location  |-> "GitHub (public repo)"]]
    /\ search' = IdleSearch
    /\ UNCHANGED <<dataDir, pdf, phase, created, boot, chats>>

\* GET /kb-info, lines 150-156.
kb_info ==
    /\ phase = "serving"
    /\ response' = [op |-> "kb-info", req |-> <<>>, status |-> 200,
                    body |-> [documents_loaded |-> Len(swat_docs),
                              secondary_source |-> "SWaT Operation Manual",
                              source_location  |-> "GitHub (public repo)"]]
    /\ search' = IdleSearch
    /\ UNCHANGED <<dataDir, pdf, phase, swat_docs, created, boot, chats>>

Init ==
    /\ dataDir \in {"absent", "dir", "file"}
    /\ pdf \in (IF dataDir = "dir" THEN {NoFile, JunkFile} \cup RemoteContents ELSE {NoFile})
    /\ phase = "down"
    /\ swat_docs = <<>>
    /\ created = 0
    /\ boot = NoBoot
    /\ response = NoResponse
    /\ chats = <<>>
    /\ search = IdleSearch

Next ==
    \/ Bootstrap
    \/ Stop
    \/ chat_endpoint
    \/ arxiv_search
    \/ health_check
    \/ kb_info

Spec == Init /\ [][Next]_vars
\* ============================================================== claims
\* Reading a timestamp back as an instant, in microseconds.
Instant(ts) == ts[1] * UsPerSec + (IF Len(ts) = 2 THEN ts[2] ELSE 0)

\* A text written out character by character, and its length.
RECURSIVE Expand(_)
Expand(s) ==
    IF s = <<>> THEN <<>> ELSE [j \in 1..Head(s).n |-> Head(s).ch] \o Expand(Tail(s))

IsPrefix(a, b) == Len(a) <= Len(b) /\ a = SubSeq(b, 1, Len(a))

InDomain(terms) == Satisfies(terms, Clause1) /\ Satisfies(terms, Clause2)

\* C1: start-up never raises: whatever bootstrap step fails (preparing the
\* data directory, the fetch, its status, the write, the parse), the failure
\* is caught, swat_docs is empty and the process serves requests.
C1_StartupNeverRaises ==
    (phase # "down" /\ boot.error # "none")
        => (phase = "serving" /\ ~boot.raised /\ swat_docs = <<>>)

\* C2 (as stated): /kb-info reports 0 documents when the bootstrap failed and
\* a positive number when it completed without an exception.
C2_PositiveWhenLoaded ==
    response.op = "kb-info"
        => /\ boot.error # "none" => response.body.documents_loaded = 0
           /\ boot.error = "none" => response.body.documents_loaded > 0

\* C2 (amended): /kb-info reports 0 documents when the bootstrap failed and
\* the number of pages of the manual file, which is 0 for a file without
\* pages, when it completed without an exception.
C2_PageCountWhenLoaded ==
    response.op = "kb-info"
        => /\ boot.error # "none" => response.body.documents_loaded = 0
           /\ boot.error = "none" => /\ pdf.kind = "pdf"
                                     /\ response.body.documents_loaded = pdf.pages

C2_Witness ==
    /\ response.op = "kb-info"
    /\ boot.error = "none"
    /\ boot.fetched
    /\ response.body.documents_loaded > 0

\* C3: a start-up that finds the manual file present performs no fetch, a
\* fetch happens only after the existence check found the file absent, and
\* this program stores the file at most once on a disk.
C3_NoFetchWhenPresent ==
    /\ boot.existed => ~boot.fetched
    /\ created <= 1

\* A later start-up found the file an earlier one had fetched.
C3_Witness ==
    /\ phase = "serving"
    /\ boot.existed
    /\ ~boot.fetched
    /\ created = 1
    /\ boot.error = "none"

\* C4: whatever the query, the expression sent to the index is satisfied
\* only by papers that satisfy both fixed domain clauses.
C4_DomainConstrained ==
    search.issued > 0
        => \A i \in DOMAIN Catalogue :
              Satisfies(Catalogue[i].terms, search.expr) => InDomain(Catalogue[i].terms)

\* C5: a successful /arxiv-search response holds at most 3 results and
\* echoes the request's query exactly.
C5_CappedAndEchoed ==
    (response.op = "arxiv-search" /\ response.status = 200)
        => /\ Len(response.body.results) <= DefaultMaxResults
           /\ response.body.query = response.req

\* The index held more than 3 papers for the expression and 3 came back.
C5_Witness ==
    /\ response.op = "arxiv-search"
    /\ response.status = 200
    /\ Len(response.body.results) = DefaultMaxResults
    /\ Len(IndexAnswer[search.expr].hits) > DefaultMaxResults
    /\ response.req # <<>>

\* C6: the result records are one per paper yielded by the index, in the
\* order yielded; each summary has at most 400 characters, is a prefix of
\* the paper's summary, and is the whole summary when that has at most 400.
C6_SummaryPrefix ==
    (response.op = "arxiv-search" /\ response.status = 200)
        => /\ Len(response.body.results) = Len(search.yielded)
           /\ \A i \in DOMAIN search.yielded :
                LET rec  == response.body.results[i]
                    full == Expand(search.yielded[i].summary)
                    cut  == Expand(rec.summary)
                IN  /\ rec.title = search.yielded[i].title
                    /\ Len(cut) <= SummaryLimit
                    /\ IsPrefix(cut, full)
                    /\ Len(full) <= SummaryLimit => cut = full

\* Three papers came back, one with a summary over 400 characters and one
\* with a summary of exactly 400.
C6_Witness ==
    /\ response.op = "arxiv-search"
    /\ response.status = 200
    /\ Len(search.yielded) = 3
    /\ \E i \in DOMAIN search.yielded :
          Len(Expand(search.yielded[i].summary)) > SummaryLimit
    /\ \E i \in DOMAIN search.yielded :
          Len(Expand(search.yielded[i].summary)) = SummaryLimit

\* C7 (as stated): every /chat response carries the same answer and sources,
\* and its timestamp is not earlier than the previous /chat response's.
C7_TimestampsNeverGoBack ==
    /\ \A i \in DOMAIN chats : /\ chats[i].body.answer = placeholder_answer
                               /\ chats[i].body.sources = ChatSources
    /\ Len(chats) = 2
          => Instant(chats[2].body.timestamp) >= Instant(chats[1].body.timestamp)

\* C7 (amended): every /chat response carries the same answer and sources,
\* whatever the query; its timestamp is the wall-clock reading taken while
\* the request was handled, so it is not earlier than the previous /chat
\* response's when the wall clock was not set back between the two.
C7_TimestampIsClockReading ==
    /\ \A i \in DOMAIN chats : /\ chats[i].body.answer = placeholder_answer
                               /\ chats[i].body.sources = ChatSources
                               /\ Len(chats[i].body.sources) = 2
                               /\ Instant(chats[i].body.timestamp) = chats[i].utc
    /\ response.op = "chat" => response.body = chats[Len(chats)].body
    /\ (Len(chats) = 2 /\ chats[2].utc >= chats[1].utc)
          => Instant(chats[2].body.timestamp) >= Instant(chats[1].body.timestamp)

\* Two /chat calls, the later one with a non-empty query and a later clock
\* reading; the two timestamps are written in the two forms of isoformat.
C7_Witness ==
    /\ Len(chats) = 2
    /\ response.op = "chat"
    /\ response.req # <<>>
    /\ chats[2].utc > chats[1].utc
    /\ Len(chats[2].body.timestamp) # Len(chats[1].body.timestamp)

\* C8: a failure of the external search, at the call or while iterating,
\* leaves search_arxiv_swat and the handler uncaught: the search was issued
\* once, and the response is the framework's error, never a normal response
\* with the results accumulated so far.
C8_FailurePropagates ==
    response.op = "arxiv-search"
        => /\ search.issued = 1
           /\ search.failed => /\ search.raised
                               /\ response.status = 500
                               /\ response.body = <<>>
           /\ ~search.failed => response.status = 200

\* The failure came after two papers had been accumulated.
C8_Witness ==
    /\ response.op = "arxiv-search"
    /\ search.failed
    /\ Len(search.acc) = 2
    /\ response.status = 500

\* C9: once the manual file exists no step rewrites or deletes it, and this
\* program creates it at most once.
C9_FileNeverRewritten ==
    /\ [][Exists(pdf) => pdf' = pdf]_vars
    /\ [](created <= 1)

\* A start-up found the file a cut-short write had left, failed to parse it
\* and left it as it was.
C9_Witness ==
    /\ phase = "serving"
    /\ boot.existed
    /\ boot.error = "parse"
    /\ pdf = TruncFile
    /\ created = 1

\* C10: the disk and swat_docs change only in steps that start or stop the
\* process, never while it serves; responses exist only while it serves;
\* and /kb-info reports the length swat_docs has had since start-up.
C10_HandlersLeaveBootstrapState ==
    /\ [][(phase = "serving" /\ phase' = "serving")
             => UNCHANGED <<dataDir, pdf, swat_docs, created, boot>>]_vars
    /\ [](response.op # "none" => phase = "serving")
    /\ [](response.op = "kb-info"
             => response.body.documents_loaded = Len(swat_docs))

\* /kb-info answered after two /chat calls, with pages loaded.
C10_Witness ==
    /\ response.op = "kb-info"
    /\ Len(chats) = 2
    /\ response.body.documents_loaded > 0

=============================================================================
